---- MODULE Spec2Model ----
(***************************************************************************)
(* The whisper indexer: the polling loop (lake), the event parser and the  *)
(* SQLite sink (db), as state machines.                                    *)
(*                                                                         *)
(*   Spec          the indexer process as index.ts wires it: startIndexing *)
(*                 once per process, stopIndexing on a signal, the process *)
(*                 crashing or exiting at any point and being restarted    *)
(*                 on the same database.                                   *)
(*   SpecMsgStore  saveMessage called with arbitrary rows.                 *)
(*   SpecProfStore saveProfile called with arbitrary rows.                 *)
(*   SpecParse     parseBlock applied once to a block drawn from a bounded *)
(*                 set, against a store that may already hold rows.        *)
(***************************************************************************)
EXTENDS Integers, Sequences, FiniteSets, TLC

VARIABLES
    \* the indexer process (module state and the locals of startIndexing)
    pc, running, latestKnownHeight, currentHeight, blocksProcessed,
    attempt, height, blockData, eventsFound, sleepMs,
    \* the startIndexing invocations of SpecApi, each with its own locals
    loops,
    \* the database (it survives the process)
    last_block_height, messages, profiles,
    \* the environment: process.env.START_BLOCK and the upstream final height
    envStart, chainTip,
    \* history variables, written by the actions and read only by properties
    fetchLog, iterOutcome, iterHeight, lostAt, crashAt, calls

procVars == <<pc, running, latestKnownHeight, currentHeight, blocksProcessed,
              attempt, height, blockData, eventsFound, sleepMs, loops>>
dbVars   == <<last_block_height, messages, profiles>>
envVars  == <<envStart, chainTip>>
histVars == <<fetchLog, iterOutcome, iterHeight, lostAt, crashAt, calls>>
vars     == <<procVars, dbVars, envVars, histVars>>

(***************************************************************************)
(* Program constants.                                                      *)
(***************************************************************************)
POLL_INTERVAL_MS    == 350
CATCHUP_INTERVAL_MS == 50
IDLE_INTERVAL_MS    == 1000
MAX_RETRIES         == 3
RETRY_BASE_MS       == 1000
CATCHUP_THRESHOLD   == 100
ERROR_DELAY_MS      == 5000
REFRESH_EVERY       == 200
CONTRACT_ID         == "whisper.kaizap.near"

(***************************************************************************)
(* Bounds of the model.                                                    *)
(***************************************************************************)
MaxCalls  == 2      \* save calls in SpecMsgStore / SpecProfStore
MaxHeight == 2      \* heights 0..MaxHeight are served by the upstream
MaxLogs   == 2      \* log lines of the outcome under test in SpecParse

\* JavaScript null and undefined, as values of a column
Null      == "null"
Undefined == "undefined"
\* no block at hand (blockData outside an iteration, the data of a null result)
NoData    == [block |-> FALSE, height |-> 0, timestamp |-> "none", shards |-> <<>>]
\* the sync_state table holds no 'last_block_height' row
NoRow     == -1

(***************************************************************************)
(* db: the messages and profiles tables and their prepared statements.     *)
(* A table is the set of its rows; the id column of messages is left out.  *)
(* encrypted_body stands for the payload columns encrypted_body, nonce,    *)
(* recipient_key_version and reply_to, which every statement treats alike. *)
(***************************************************************************)
MsgKey(r) == <<r.tx_hash, r.event_type, r.sender, r.recipient>>

\* better-sqlite3 refuses to bind undefined: run() throws before any write
MsgBindFails(r) ==
    Undefined \in {r.tx_hash, r.sender, r.recipient, r.encrypted_body, r.amount}

ProfBindFails(r) ==
    Undefined \in {r.account_id, r.x25519_pubkey, r.display_name}

\* INSERT OR REPLACE: the row of the latest call wins
insertMessage_replace(msgs, row) ==
    IF MsgBindFails(row)
    THEN [rows |-> msgs, threw |-> TRUE]
    ELSE [rows |-> {m \in msgs : MsgKey(m) # MsgKey(row)} \cup {row},
          threw |-> FALSE]

\* INSERT without OR IGNORE: a second row with the key violates the constraint
insertMessage_strict(msgs, row) ==
    IF MsgBindFails(row) \/ \E m \in msgs : MsgKey(m) = MsgKey(row)
    THEN [rows |-> msgs, threw |-> TRUE]
    ELSE [rows |-> msgs \cup {row}, threw |-> FALSE]

\* INSERT OR IGNORE INTO messages ... under UNIQUE(tx_hash, event_type, sender, recipient)
insertMessage(msgs, row) ==
    IF MsgBindFails(row)
    THEN [rows |-> msgs, threw |-> TRUE]
    ELSE IF \E m \in msgs : MsgKey(m) = MsgKey(row)
         THEN [rows |-> msgs, threw |-> FALSE]
         ELSE [rows |-> msgs \cup {row}, threw |-> FALSE]

\* ON CONFLICT DO UPDATE that also sets registered_at
upsertProfile_ts(profs, row) ==
    IF ProfBindFails(row)
    THEN [rows |-> profs, threw |-> TRUE]
    ELSE [rows |-> {p \in profs : p.account_id # row.account_id} \cup {row},
          threw |-> FALSE]

\* INSERT INTO profiles ... ON CONFLICT(account_id) DO UPDATE SET
\*   x25519_pubkey, key_version, display_name = excluded.*
upsertProfile(profs, row) ==
    IF ProfBindFails(row)
    THEN [rows |-> profs, threw |-> TRUE]
    ELSE IF \E p \in profs : p.account_id = row.account_id
         THEN [rows |-> {IF p.account_id = row.account_id
                         THEN [p EXCEPT !.x25519_pubkey = row.x25519_pubkey,
                                        !.key_version   = row.key_version,
                                        !.display_name  = row.display_name]
                         ELSE p : p \in profs},
               threw |-> FALSE]
         ELSE [rows |-> profs \cup {row}, threw |-> FALSE]

\* saveMessage(msg): insertMessage.run(msg); dbErr is the statement failing
\* in the engine (SQLITE_BUSY, SQLITE_FULL, SQLITE_IOERR), nothing written
saveMessage(msgs, msg, dbErr) ==
    IF dbErr THEN [rows |-> msgs, threw |-> TRUE] ELSE insertMessage(msgs, msg)

\* saveProfile(profile): upsertProfile.run(profile)
saveProfile(profs, profile, dbErr) ==
    IF dbErr THEN [rows |-> profs, threw |-> TRUE] ELSE upsertProfile(profs, profile)

\* getLastBlockHeight(): the row's value parsed as an integer, 0 without a row.
\* setLastBlockHeight stores String(height); parseInt(String(n), 10) = n for
\* every non-negative integer below 10^21, so the row is kept as the integer.
getLastBlockHeight(row) == IF row # NoRow THEN row ELSE 0

(***************************************************************************)
(* parser: parseBlock.                                                     *)
(*                                                                         *)
(* A block is [block, height, timestamp, shards]: block is FALSE when the  *)
(* fetched JSON value has no block.header (reading it throws a TypeError). *)
(* shards is a sequence of shards, a shard the sequence of its             *)
(* receipt_execution_outcomes, an outcome [executor_id, tx_hash, id, logs] *)
(* with tx_hash "" when the field is absent or empty.                      *)
(*                                                                         *)
(* A log line is a string; it is described by what startsWith, slice and   *)
(* JSON.parse make of it:                                                  *)
(*   marker    the line starts with EVENT_JSON:                            *)
(*   json      "bad"    JSON.parse throws a SyntaxError                    *)
(*             "null"   it returns null, so event.standard throws          *)
(*             "object" it returns an object with the fields below         *)
(*   standard, event    the envelope's fields                              *)
(*   iterable  FALSE when data is absent or not iterable (for..of throws)  *)
(*   data      the items; an item is [shape, from, to, ...] with shape     *)
(*             "null" for a null item (reading a field of it throws) and   *)
(*             Undefined for a field the item does not have                *)
(***************************************************************************)
Tail2(seq) == SubSeq(seq, 2, Len(seq))

\* what one item does, inside the try block of its log line:
\* [messages, profiles, eventsFound, saves, threw]; saves counts the save
\* calls of this parseBlock, dbFail is the set of calls that fail in the engine
HandleItem(acc, event, item, txHash, blockHeight, timestampNs, dbFail) ==
    LET n == acc.saves + 1 IN
    CASE event = "message_sent" ->
           IF item.shape = "null" THEN [acc EXCEPT !.threw = TRUE]
           ELSE LET r == saveMessage(acc.messages,
                           [tx_hash |-> txHash, block_height |-> blockHeight,
                            timestamp_ns |-> timestampNs,
                            event_type |-> "message_sent",
                            sender |-> item.from, recipient |-> item.to,
                            encrypted_body |-> item.encrypted_body,
                            amount |-> Null], n \in dbFail) IN
                IF r.threw THEN [acc EXCEPT !.saves = n, !.threw = TRUE]
                ELSE [acc EXCEPT !.messages = r.rows, !.saves = n,
                                 !.eventsFound = acc.eventsFound + 1]
      [] event = "message_sent_with_payment" ->
           IF item.shape = "null" THEN [acc EXCEPT !.threw = TRUE]
           ELSE LET r == saveMessage(acc.messages,
                           [tx_hash |-> txHash, block_height |-> blockHeight,
                            timestamp_ns |-> timestampNs,
                            event_type |-> "message_sent_with_payment",
                            sender |-> item.from, recipient |-> item.to,
                            encrypted_body |-> item.encrypted_body,
                            amount |-> item.amount], n \in dbFail) IN
                IF r.threw THEN [acc EXCEPT !.saves = n, !.threw = TRUE]
                ELSE [acc EXCEPT !.messages = r.rows, !.saves = n,
                                 !.eventsFound = acc.eventsFound + 1]
      [] event = "key_registered" ->
           IF item.shape = "null" THEN [acc EXCEPT !.threw = TRUE]
           ELSE LET r == saveProfile(acc.profiles,
                           [account_id |-> item.account_id,
                            x25519_pubkey |-> item.x25519_pubkey,
                            key_version |-> item.key_version,
                            display_name |-> IF item.display_name = Undefined
                                             THEN Null ELSE item.display_name,
                            registered_at |-> timestampNs], n \in dbFail) IN
                IF r.threw THEN [acc EXCEPT !.saves = n, !.threw = TRUE]
                ELSE [acc EXCEPT !.profiles = r.rows, !.saves = n,
                                 !.eventsFound = acc.eventsFound + 1]
      [] OTHER -> acc

\* for (const item of event.data) switch (event.event): a throw leaves the loop
RECURSIVE HandleItems(_, _, _, _, _, _, _)
HandleItems(acc, event, items, txHash, blockHeight, timestampNs, dbFail) ==
    IF items = <<>> \/ acc.threw THEN acc
    ELSE HandleItems(HandleItem(acc, event, Head(items), txHash, blockHeight,
                                timestampNs, dbFail),
                     event, Tail2(items), txHash, blockHeight, timestampNs, dbFail)

\* a log line whose error is not caught: it aborts parseBlock
HandleLog_nocatch(acc, log, txHash, blockHeight, timestampNs, dbFail) ==
    IF ~log.marker THEN acc
    ELSE IF log.json # "object" THEN [acc EXCEPT !.threw = TRUE]
    ELSE IF log.standard # "whisper" THEN acc
    ELSE IF ~log.iterable THEN [acc EXCEPT !.threw = TRUE]
    ELSE HandleItems(acc, log.event, log.data, txHash, blockHeight,
                     timestampNs, dbFail)

\* the body of for (const log of logs): the marker test, then try { JSON.parse,
\* the standard test, the items } catch { }: whatever is thrown inside the try
\* ends the line and is dropped
HandleLog(acc, log, txHash, blockHeight, timestampNs, dbFail) ==
    IF ~log.marker THEN acc
    ELSE IF log.json # "object" THEN acc
    ELSE IF log.standard # "whisper" THEN acc
    ELSE IF ~log.iterable THEN acc
    ELSE [HandleItems(acc, log.event, log.data, txHash, blockHeight,
                      timestampNs, dbFail) EXCEPT !.threw = FALSE]

RECURSIVE HandleLogs(_, _, _, _, _, _)
HandleLogs(acc, logs, txHash, blockHeight, timestampNs, dbFail) ==
    IF logs = <<>> \/ acc.threw THEN acc
    ELSE HandleLogs(HandleLog(acc, Head(logs), txHash, blockHeight,
                              timestampNs, dbFail),
                    Tail2(logs), txHash, blockHeight, timestampNs, dbFail)

\* an outcome handled whoever executed it
HandleOutcome_anyexecutor(acc, reo, blockHeight, timestampNs, dbFail) ==
    IF reo.logs = <<>> THEN acc
    ELSE HandleLogs(acc, reo.logs,
                    IF reo.tx_hash # "" THEN reo.tx_hash ELSE reo.id,
                    blockHeight, timestampNs, dbFail)

\* one receipt_execution_outcome: the executor test, the empty-logs test,
\* txHash = reo.tx_hash || reo.execution_outcome.id
HandleOutcome(acc, reo, blockHeight, timestampNs, dbFail) ==
    IF reo.executor_id # CONTRACT_ID THEN acc
    ELSE IF reo.logs = <<>> THEN acc
    ELSE HandleLogs(acc, reo.logs,
                    IF reo.tx_hash # "" THEN reo.tx_hash ELSE reo.id,
                    blockHeight, timestampNs, dbFail)

RECURSIVE HandleOutcomes(_, _, _, _, _)
HandleOutcomes(acc, reos, blockHeight, timestampNs, dbFail) ==
    IF reos = <<>> \/ acc.threw THEN acc
    ELSE HandleOutcomes(HandleOutcome(acc, Head(reos), blockHeight,
                                      timestampNs, dbFail),
                        Tail2(reos), blockHeight, timestampNs, dbFail)

RECURSIVE HandleShards(_, _, _, _, _)
HandleShards(acc, shards, blockHeight, timestampNs, dbFail) ==
    IF shards = <<>> \/ acc.threw THEN acc
    ELSE HandleShards(HandleOutcomes(acc, Head(shards), blockHeight,
                                     timestampNs, dbFail),
                      Tail2(shards), blockHeight, timestampNs, dbFail)

\* parseBlock(blockData) against the tables msgs and profs:
\* [messages, profiles, eventsFound, saves, threw]
parseBlock(b, msgs, profs, dbFail) ==
    LET acc == [messages |-> msgs, profiles |-> profs, eventsFound |-> 0,
                saves |-> 0, threw |-> FALSE] IN
    IF ~b.block THEN [acc EXCEPT !.threw = TRUE]
    ELSE HandleShards(acc, b.shards, b.height, b.timestamp, dbFail)

(***************************************************************************)
(* The values the save calls and the upstream blocks are drawn from.       *)
(***************************************************************************)
Accounts   == {"a.near", "b.near"}
TxHashes   == {"tx1", "tx2"}
Bodies     == {"x", "y"}
MsgEvents  == {"message_sent", "message_sent_with_payment"}
PubKeys    == {"K1", "K2"}
Names      == {Null, "alice"}
Timestamps == {"T1", "T2"}

MsgRows ==
    [tx_hash : TxHashes, block_height : {1}, timestamp_ns : {"T1"},
     event_type : MsgEvents, sender : {"a.near"}, recipient : Accounts,
     encrypted_body : Bodies, amount : {Null}]

ProfRows ==
    [account_id : Accounts, x25519_pubkey : PubKeys, key_version : {1, 2},
     display_name : Names, registered_at : Timestamps]

\* the process is not part of the store and parser specifications
ProcIdle ==
    /\ running = FALSE /\ latestKnownHeight = 0
    /\ currentHeight = 0 /\ blocksProcessed = 0 /\ attempt = 0 /\ height = 0
    /\ sleepMs = 0
    /\ last_block_height = NoRow /\ envStart = 0 /\ chainTip = 0
    /\ fetchLog = <<>> /\ iterOutcome = "none" /\ iterHeight = 0 /\ lostAt = {}
    /\ loops = <<>> /\ crashAt = {}

StoreIdle == ProcIdle /\ pc = "none" /\ blockData = NoData /\ eventsFound = 0

(***************************************************************************)
(* SpecMsgStore: any sequence of at most MaxCalls saveMessage calls.       *)
(***************************************************************************)
MsgStoreInit ==
    /\ StoreIdle /\ messages = {} /\ profiles = {} /\ calls = <<>>

SaveMessageCall ==
    /\ Len(calls) < MaxCalls
    /\ \E row \in MsgRows :
         LET r == saveMessage(messages, row, FALSE) IN
           /\ messages' = r.rows
           /\ calls' = Append(calls, [row |-> row, threw |-> r.threw])
    /\ UNCHANGED <<procVars, last_block_height, profiles, envVars,
                   fetchLog, iterOutcome, iterHeight, lostAt, crashAt>>

SpecMsgStore == MsgStoreInit /\ [][SaveMessageCall]_vars

(***************************************************************************)
(* SpecProfStore: any sequence of at most MaxCalls saveProfile calls.      *)
(***************************************************************************)
ProfStoreInit ==
    /\ StoreIdle /\ messages = {} /\ profiles = {} /\ calls = <<>>

SaveProfileCall ==
    /\ Len(calls) < MaxCalls
    /\ \E row \in ProfRows :
         LET r == saveProfile(profiles, row, FALSE) IN
           /\ profiles' = r.rows
           /\ calls' = Append(calls, [row |-> row, threw |-> r.threw])
    /\ UNCHANGED <<procVars, last_block_height, messages, envVars,
                   fetchLog, iterOutcome, iterHeight, lostAt, crashAt>>

SpecProfStore == ProfStoreInit /\ [][SaveProfileCall]_vars

\* the first and the last call of the history made with the key of call i
FirstWithKey(i) ==
    CHOOSE j \in 1..i :
        /\ MsgKey(calls[j].row) = MsgKey(calls[i].row)
        /\ \A k \in 1..(j - 1) : MsgKey(calls[k].row) # MsgKey(calls[i].row)

FirstForAccount(a) ==
    CHOOSE j \in 1..Len(calls) :
        /\ calls[j].row.account_id = a
        /\ \A k \in 1..(j - 1) : calls[k].row.account_id # a

LastForAccount(a) ==
    CHOOSE j \in 1..Len(calls) :
        /\ calls[j].row.account_id = a
        /\ \A k \in (j + 1)..Len(calls) : calls[k].row.account_id # a

\* C8: after any sequence of saveMessage calls no call has raised an error,
\* the table holds exactly one row for every key that was saved and none for
\* any other key, and that row is the row of the first call made with the key.
C8_OneRowPerKeyFirstWins ==
    /\ \A i \in 1..Len(calls) :
         /\ ~calls[i].threw
         /\ Cardinality({m \in messages : MsgKey(m) = MsgKey(calls[i].row)}) = 1
         /\ calls[FirstWithKey(i)].row \in messages
    /\ \A m \in messages : \E i \in 1..Len(calls) : MsgKey(calls[i].row) = MsgKey(m)

\* a second call with a present key and another payload has been made
C8_Witness ==
    /\ Len(calls) >= 2
    /\ MsgKey(calls[1].row) = MsgKey(calls[2].row)
    /\ calls[1].row.encrypted_body # calls[2].row.encrypted_body
    /\ calls[1].row \in messages
    /\ calls[2].row \notin messages

\* C9: after any sequence of saveProfile calls every registered account has
\* exactly one profile row; it carries the public key, key version and display
\* name of the account's latest call and the registered_at of its first call.
C9_ProfileLastKeyFirstTimestamp ==
    \A a \in Accounts :
        LET mine == {p \in profiles : p.account_id = a} IN
        IF \E i \in 1..Len(calls) : calls[i].row.account_id = a
        THEN /\ Cardinality(mine) = 1
             /\ \A p \in mine :
                  LET f == calls[FirstForAccount(a)].row
                      l == calls[LastForAccount(a)].row IN
                    /\ p.x25519_pubkey = l.x25519_pubkey
                    /\ p.key_version   = l.key_version
                    /\ p.display_name  = l.display_name
                    /\ p.registered_at = f.registered_at
        ELSE mine = {}

\* K1 registered at T1, then K2 at T2: the row holds K2 and T1
C9_Witness ==
    /\ Len(calls) = 2
    /\ calls[1].row.account_id = "a.near" /\ calls[2].row.account_id = "a.near"
    /\ calls[1].row.x25519_pubkey = "K1" /\ calls[1].row.registered_at = "T1"
    /\ calls[2].row.x25519_pubkey = "K2" /\ calls[2].row.registered_at = "T2"
    /\ \E p \in profiles :
         p.account_id = "a.near" /\ p.x25519_pubkey = "K2" /\ p.registered_at = "T1"

(***************************************************************************)
(* SpecParse: parseBlock applied once to a block of ParseBlocks.           *)
(***************************************************************************)
Item(shape, from, to, body, amount, account, pubkey, name) ==
    [shape |-> shape, from |-> from, to |-> to, encrypted_body |-> body,
     amount |-> amount, account_id |-> account, x25519_pubkey |-> pubkey,
     key_version |-> 1, display_name |-> name]

MsgItem(from, to, body, amount) ==
    Item("object", from, to, body, amount, Undefined, Undefined, Undefined)
KeyItem(account, pubkey, name) ==
    Item("object", Undefined, Undefined, Undefined, Undefined, account, pubkey, name)
NullItem ==
    Item("null", Undefined, Undefined, Undefined, Undefined, Undefined, Undefined, Undefined)

EventLine(standard, event, items) ==
    [marker |-> TRUE, json |-> "object", standard |-> standard, event |-> event,
     iterable |-> TRUE, data |-> items]
TextLine(marker, json, iterable) ==
    [marker |-> marker, json |-> json, standard |-> "whisper",
     event |-> "message_sent", iterable |-> iterable, data |-> <<>>]

GoodMsg     == EventLine("whisper", "message_sent", <<MsgItem("a.near", "b.near", "x", Undefined)>>)
GoodMsgSame == EventLine("whisper", "message_sent", <<MsgItem("a.near", "b.near", "y", Undefined)>>)
GoodPay     == EventLine("whisper", "message_sent_with_payment", <<MsgItem("a.near", "b.near", "x", "5")>>)
GoodKey     == EventLine("whisper", "key_registered", <<KeyItem("a.near", "K1", Undefined)>>)
GoodKey2    == EventLine("whisper", "key_registered", <<KeyItem("b.near", "K2", "alice")>>)
TwoItems    == EventLine("whisper", "message_sent",
                         <<MsgItem("b.near", "a.near", "x", Undefined),
                           MsgItem("b.near", "a.near", "y", Undefined)>>)
BadJson     == TextLine(TRUE, "bad", TRUE)
NullJson    == TextLine(TRUE, "null", TRUE)
NoDataLine  == TextLine(TRUE, "object", FALSE)
NullData    == EventLine("whisper", "message_sent", <<NullItem>>)
NoRecipient == EventLine("whisper", "message_sent", <<MsgItem("a.near", Undefined, "x", Undefined)>>)
NoAmount    == EventLine("whisper", "message_sent_with_payment", <<MsgItem("a.near", "b.near", "x", Undefined)>>)
PlainText   == TextLine(FALSE, "bad", TRUE)
OtherStd    == EventLine("nep171", "message_sent", <<MsgItem("a.near", "b.near", "x", Undefined)>>)
GroupCreated == EventLine("whisper", "group_created", <<NullItem>>)

ParseLines ==
    {GoodMsg, GoodMsgSame, GoodPay, GoodKey, TwoItems, BadJson, NullJson,
     NoDataLine, NullData, NoRecipient, NoAmount, PlainText, OtherStd, GroupCreated}

LogSeqs == UNION {[1..n -> ParseLines] : n \in 0..MaxLogs}

Outcome(executor, txHash, id, logs) ==
    [executor_id |-> executor, tx_hash |-> txHash, id |-> id, logs |-> logs]
Block(h, ts, shards) ==
    [block |-> TRUE, height |-> h, timestamp |-> ts, shards |-> shards]
\* a JSON value without block.header ({"message": "..."}, [], "text", 7)
NoHeader ==
    [block |-> FALSE, height |-> 0, timestamp |-> Null, shards |-> <<>>]

\* the outcome under test alone, and between a foreign outcome and a sibling
\* of the contract, followed by an empty shard and a shard with one more
ParseBlocks ==
    {Block(1, "T1", << <<Outcome(CONTRACT_ID, "tx1", "rc1", logs)>> >>) :
        logs \in LogSeqs}
    \cup
    {Block(1, "T1",
           << <<Outcome("other.near", "tx1", "rc0", <<GoodMsg>>),
                Outcome(CONTRACT_ID, "tx1", "rc1", logs),
                Outcome(CONTRACT_ID, "", "rc2", <<GoodMsg>>)>>,
              <<>>,
              <<Outcome(CONTRACT_ID, "tx2", "rc3", <<GoodKey2>>)>> >>) :
        logs \in LogSeqs}
    \cup {NoHeader}

\* the tables before the call: empty, or holding rows of an earlier block
PreMessages ==
    {{}, {[tx_hash |-> "tx1", block_height |-> 1, timestamp_ns |-> "T1",
           event_type |-> "message_sent", sender |-> "a.near",
           recipient |-> "b.near", encrypted_body |-> "x", amount |-> Null]}}
PreProfiles ==
    {{}, {[account_id |-> "a.near", x25519_pubkey |-> "K0", key_version |-> 1,
           display_name |-> Null, registered_at |-> "T0"]}}

\* the save calls of one parseBlock that fail in the engine
DbFailSets == {{}, {1}, {2}}

ParseInit ==
    /\ ProcIdle
    /\ pc = "parse_call"
    /\ blockData \in ParseBlocks
    /\ eventsFound = 0
    /\ messages \in PreMessages
    /\ profiles \in PreProfiles
    /\ calls = <<>>

\* const n = parseBlock(blockData), returning or throwing
ParseCall ==
    /\ pc = "parse_call"
    /\ \E dbFail \in DbFailSets :
         LET r == parseBlock(blockData, messages, profiles, dbFail) IN
           /\ messages' = r.messages
           /\ profiles' = r.profiles
           /\ eventsFound' = r.eventsFound
           /\ pc' = IF r.threw THEN "parse_threw" ELSE "parse_returned"
           /\ calls' = <<[messages |-> messages, profiles |-> profiles,
                          dbFail |-> dbFail]>>
    /\ UNCHANGED <<running, latestKnownHeight, currentHeight, blocksProcessed,
                   attempt, height, blockData, sleepMs, last_block_height,
                   loops, envVars, fetchLog, iterOutcome, iterHeight, lostAt,
                   crashAt>>

SpecParse == ParseInit /\ [][ParseCall]_vars

(***************************************************************************)
(* Properties of parseBlock.                                               *)
(***************************************************************************)
RECURSIVE Concat(_)
Concat(seqs) == IF seqs = <<>> THEN <<>> ELSE Head(seqs) \o Concat(Tail2(seqs))

\* the log lines of the contract's outcomes, in block order, each with the
\* transaction hash of its outcome
ContractLines(b) ==
    LET reos == Concat(b.shards)
        own  == SelectSeq(reos, LAMBDA reo : reo.executor_id = CONTRACT_ID)
    IN Concat([i \in 1..Len(own) |->
                 [j \in 1..Len(own[i].logs) |->
                    [log |-> own[i].logs[j],
                     txHash |-> IF own[i].tx_hash # "" THEN own[i].tx_hash
                                ELSE own[i].id]]])

IsEventJson(log) == log.marker /\ log.json = "object" /\ log.iterable

\* a well-formed recognized single-item event line
WellFormedMsg(log) ==
    /\ IsEventJson(log) /\ log.standard = "whisper" /\ log.event \in MsgEvents
    /\ Len(log.data) = 1
    /\ log.data[1].shape = "object"
    /\ Undefined \notin {log.data[1].from, log.data[1].to, log.data[1].encrypted_body}
    /\ log.event = "message_sent_with_payment" => log.data[1].amount # Undefined
WellFormedKey(log) ==
    /\ IsEventJson(log) /\ log.standard = "whisper" /\ log.event = "key_registered"
    /\ Len(log.data) = 1
    /\ log.data[1].shape = "object"
    /\ Undefined \notin {log.data[1].account_id, log.data[1].x25519_pubkey}
WellFormed(log) == WellFormedMsg(log) \/ WellFormedKey(log)

\* a line with more than one item is outside the single-item case
SingleItemLines(b) ==
    \A i \in 1..Len(ContractLines(b)) :
        LET log == ContractLines(b)[i].log IN
          IsEventJson(log) /\ log.standard = "whisper" => Len(log.data) <= 1

\* the row a well-formed message line asks for
MsgRowOf(e, b) ==
    [tx_hash |-> e.txHash, block_height |-> b.height, timestamp_ns |-> b.timestamp,
     event_type |-> e.log.event, sender |-> e.log.data[1].from,
     recipient |-> e.log.data[1].to,
     encrypted_body |-> e.log.data[1].encrypted_body,
     amount |-> IF e.log.event = "message_sent" THEN Null ELSE e.log.data[1].amount]

\* C10: for every block with a header, whatever its log lines hold and
\* whichever save calls fail, parseBlock returns (no error of a log line
\* escapes it). When its event lines are single-item and no save fails, it
\* returns the number N of well-formed recognized lines of the contract's
\* outcomes, wherever the malformed lines stand; the event of each of these N
\* lines is stored (its own row when its key is new, the row already held
\* under its key otherwise); and no row is added or changed on behalf of any
\* other line.
C10_ParseIsolation ==
    LET lines == ContractLines(blockData)
        good  == {i \in 1..Len(lines) : WellFormed(lines[i].log)}
        goodM == {i \in good : WellFormedMsg(lines[i].log)}
        goodK == {i \in good : WellFormedKey(lines[i].log)}
        pre   == calls[1]
        Stored ==
          /\ eventsFound = Cardinality(good)
          /\ \A i \in goodM :
               LET row == MsgRowOf(lines[i], blockData)
                   firstOfKey ==
                     /\ \A m \in pre.messages : MsgKey(m) # MsgKey(row)
                     /\ \A k \in goodM : k < i =>
                           MsgKey(MsgRowOf(lines[k], blockData)) # MsgKey(row)
               IN /\ \E m \in messages : MsgKey(m) = MsgKey(row)
                  /\ firstOfKey => row \in messages
          /\ \A m \in messages \ pre.messages :
               \E i \in goodM : MsgRowOf(lines[i], blockData) = m
          /\ pre.messages \subseteq messages
          /\ \A i \in goodK :
               \E p \in profiles :
                 /\ p.account_id = lines[i].log.data[1].account_id
                 /\ (\A k \in goodK : k > i =>
                        lines[k].log.data[1].account_id # p.account_id)
                    => p.x25519_pubkey = lines[i].log.data[1].x25519_pubkey
          /\ \A p \in profiles \ pre.profiles :
               \E i \in goodK : lines[i].log.data[1].account_id = p.account_id
    IN
    (pc \in {"parse_returned", "parse_threw"} /\ blockData.block)
    =>
    /\ pc = "parse_returned"
    /\ (calls[1].dbFail = {} /\ SingleItemLines(blockData)) => Stored

\* a malformed line before and after a well-formed one, in an outcome that is
\* followed by a sibling outcome and another shard: both events are stored
C10_Witness ==
    /\ pc = "parse_returned"
    /\ calls[1].dbFail = {} /\ calls[1].messages = {} /\ calls[1].profiles = {}
    /\ Len(blockData.shards) = 3
    /\ blockData.shards[1][2].logs = <<BadJson, GoodPay>>
    /\ eventsFound = 3
    /\ Cardinality(messages) = 2
    /\ \E p \in profiles : p.account_id = "b.near"

\* a line of the contract's outcomes that carries a recognized event: the
\* marker, an envelope with standard 'whisper' and one of the three tags
RecognizedEvents == MsgEvents \cup {"key_registered"}
Recognized(log) ==
    /\ log.marker /\ log.json = "object"
    /\ log.standard = "whisper" /\ log.event \in RecognizedEvents
ItemsOf(log) == IF log.iterable THEN log.data ELSE <<>>

RECURSIVE SumLen(_, _)
SumLen(lines, idx) ==
    IF idx = {} THEN 0
    ELSE LET i == CHOOSE k \in idx : TRUE IN
         Len(ItemsOf(lines[i].log)) + SumLen(lines, idx \ {i})

\* the message row parseBlock builds for an item of a line
MsgRowOfItem(e, item, b) ==
    [tx_hash |-> e.txHash, block_height |-> b.height, timestamp_ns |-> b.timestamp,
     event_type |-> e.log.event, sender |-> item.from, recipient |-> item.to,
     encrypted_body |-> item.encrypted_body,
     amount |-> IF e.log.event = "message_sent" THEN Null ELSE item.amount]

\* C20: for every block with a header and whichever save calls fail,
\* parseBlock returns (no line raises anything out of it); every message row
\* it adds is the row of a data item of a line that belongs to an outcome
\* executed by the contract, starts with the EVENT_JSON: marker, has standard
\* 'whisper' and has the tag message_sent or message_sent_with_payment; every
\* profile row it adds or changes carries the account and key of a data item
\* of such a line with the tag key_registered; no other row is added, changed
\* or removed; and the returned count is at most the number of data items of
\* these lines, so that every other line and tag (group_created included)
\* stores nothing and is not counted.
C20_OnlyRecognizedEventsPersist ==
    LET lines == ContractLines(blockData)
        rec   == {i \in 1..Len(lines) : Recognized(lines[i].log)}
        recM  == {i \in rec : lines[i].log.event \in MsgEvents}
        recK  == {i \in rec : lines[i].log.event = "key_registered"}
        pre   == calls[1]
        FromKeyItem(p) ==
            \E i \in recK : \E j \in 1..Len(ItemsOf(lines[i].log)) :
                LET item == lines[i].log.data[j] IN
                  /\ item.shape = "object"
                  /\ p.account_id = item.account_id
                  /\ p.x25519_pubkey = item.x25519_pubkey
    IN
    (pc \in {"parse_returned", "parse_threw"} /\ blockData.block)
    =>
    /\ pc = "parse_returned"
    /\ eventsFound <= SumLen(lines, rec)
    /\ pre.messages \subseteq messages
    /\ \A m \in messages \ pre.messages :
          \E i \in recM : \E j \in 1..Len(ItemsOf(lines[i].log)) :
              /\ lines[i].log.data[j].shape = "object"
              /\ m = MsgRowOfItem(lines[i], lines[i].log.data[j], blockData)
    /\ \A p \in profiles \ pre.profiles : FromKeyItem(p)
    /\ \A p \in pre.profiles \ profiles :
          \E q \in profiles \ pre.profiles : q.account_id = p.account_id
    /\ Cardinality(profiles) >= Cardinality(pre.profiles)

\* a block in which an outcome of another executor holds a message event and
\* the contract's outcome holds a group_created event and an event of another
\* standard: only the two events of the sibling outcomes are stored and counted
C20_Witness ==
    /\ pc = "parse_returned"
    /\ calls[1].dbFail = {} /\ calls[1].messages = {} /\ calls[1].profiles = {}
    /\ Len(blockData.shards) = 3
    /\ blockData.shards[1][1].executor_id # CONTRACT_ID
    /\ blockData.shards[1][1].logs = <<GoodMsg>>
    /\ blockData.shards[1][2].logs = <<GroupCreated, OtherStd>>
    /\ eventsFound = 2
    /\ \A m \in messages : m.tx_hash = "rc2"
    /\ Cardinality(messages) = 1
    /\ Cardinality(profiles) = 1

\* the store holds no event of the block: no message under the key of an item
\* of a recognized message line, no profile of an account of a key line
HoldsNoneOf(pre, b) ==
    LET lines == ContractLines(b) IN
    \A i \in 1..Len(lines) : Recognized(lines[i].log) =>
        \A j \in 1..Len(ItemsOf(lines[i].log)) :
            LET item == lines[i].log.data[j] IN
            item.shape = "object" =>
              IF lines[i].log.event \in MsgEvents
              THEN \A m \in pre.messages :
                       MsgKey(m) # MsgKey(MsgRowOfItem(lines[i], item, b))
              ELSE \A q \in pre.profiles : q.account_id # item.account_id

\* C21: when parseBlock returns for a block against a store that holds none
\* of the block's events, the number of message rows and profile rows it
\* added equals the count it returns, whatever the block's lines are
\* (several items with the same sender, recipient and event type in one
\* transaction included).
C21_ReturnCountsRowsAdded ==
    (pc = "parse_returned" /\ blockData.block /\ HoldsNoneOf(calls[1], blockData))
    =>
    Cardinality(messages \ calls[1].messages)
      + Cardinality(profiles \ calls[1].profiles) = eventsFound

(***************************************************************************)
(* lake: the fetchers and the indexing loop.                               *)
(***************************************************************************)
\* the upstream's final height never decreases; FarTip is more than
\* CATCHUP_THRESHOLD above the heights whose fetch the model lets settle
FarTip    == CATCHUP_THRESHOLD + 2
TipValues == (1..MaxHeight) \cup {FarTip}
Served    == 0..MaxHeight
\* the heights at which the contract emitted an event
EventHeights == {1, 2}
\* parseInt(process.env.START_BLOCK, 10), 0 when unset or not a number
StartBlocks == {0, 1}

\* the answers of GET /last_block/final: no answer, a status outside 2xx, a
\* body that is no JSON, the JSON null, an object with a truthy error field,
\* one without block, one whose block has no header, or the final block
TipResponses ==
    {[kind |-> k, height |-> 0] :
        k \in {"neterr", "status", "badjson", "jsonnull", "errfield", "noblock",
               "noheader"}}
    \cup {[kind |-> "ok", height |-> chainTip]}

\* the block the upstream holds at height h: without shards, with a message
\* and a key registration of the contract, or a JSON value that is no block
EventBlock(h) ==
    Block(h, "T1",
          << <<Outcome(CONTRACT_ID, "tx" \o ToString(h), "rc1",
                       <<GoodMsg, GoodKey>>)>> >>)
\* the save calls of one iteration's parseBlock that fail in the engine
LoopDbFailSets == {{}, {1}}
BlockResponses(h) ==
    {[kind |-> k, data |-> NoData] :
        k \in {"neterr", "status", "short", "badjson", "errfield", "jsonnull"}}
    \cup {[kind |-> "json", data |-> b] :
            b \in {Block(h, "T1", <<>>), NoHeader}
                   \cup (IF h \in EventHeights THEN {EventBlock(h)} ELSE {})}

\* fetchBlock as it was before the body checks: return await res.json()
fetchBlock_nochecks(resp) ==
    CASE resp.kind = "neterr"   -> [outcome |-> "throw", data |-> NoData]
      [] resp.kind = "status"   -> [outcome |-> "null", data |-> NoData]
      [] resp.kind = "short"    -> [outcome |-> "throw", data |-> NoData]
      [] resp.kind = "badjson"  -> [outcome |-> "throw", data |-> NoData]
      [] resp.kind = "errfield" -> [outcome |-> "data", data |-> NoHeader]
      [] resp.kind = "jsonnull" -> [outcome |-> "null", data |-> NoData]
      [] resp.kind = "json"     -> [outcome |-> "data", data |-> resp.data]

\* fetchBlock(height), by the response: "throw", "null" or "data"
fetchBlock(resp) ==
    CASE resp.kind = "neterr"   -> [outcome |-> "throw", data |-> NoData]
      [] resp.kind = "status"   -> [outcome |-> "null", data |-> NoData]
      [] resp.kind = "short"    -> [outcome |-> "null", data |-> NoData]
      [] resp.kind = "badjson"  -> [outcome |-> "null", data |-> NoData]
      [] resp.kind = "errfield" -> [outcome |-> "null", data |-> NoData]
      [] resp.kind = "jsonnull" -> [outcome |-> "null", data |-> NoData]
      [] resp.kind = "json"     -> [outcome |-> "data", data |-> resp.data]

\* the try block of fetchLatestBlockHeight: it returns a value or throws,
\* and cached is latestKnownHeight at that point
TipQueryTry(resp, lkh) ==
    CASE resp.kind = "neterr"   ->    \* fetch() rejects
           [outcome |-> "throw", value |-> 0, cached |-> lkh]
      [] resp.kind = "status"   ->    \* if (!res.ok) return latestKnownHeight
           [outcome |-> "return", value |-> lkh, cached |-> lkh]
      [] resp.kind = "badjson"  ->    \* res.json() rejects
           [outcome |-> "throw", value |-> 0, cached |-> lkh]
      [] resp.kind = "jsonnull" ->    \* data.error of null
           [outcome |-> "throw", value |-> 0, cached |-> lkh]
      [] resp.kind = "errfield" ->    \* if (data.error || !data.block) return
           [outcome |-> "return", value |-> lkh, cached |-> lkh]
      [] resp.kind = "noblock"  ->
           [outcome |-> "return", value |-> lkh, cached |-> lkh]
      [] resp.kind = "noheader" ->    \* data.block.header.height throws first
           [outcome |-> "throw", value |-> 0, cached |-> lkh]
      [] resp.kind = "ok"       ->    \* latestKnownHeight = ...; return it
           [outcome |-> "return", value |-> resp.height, cached |-> resp.height]

\* fetchLatestBlockHeight without its catch
TipQuery_nocatch(resp, lkh) == TipQueryTry(resp, lkh)

\* fetchLatestBlockHeight(): try { ... } catch { return latestKnownHeight }
TipQuery(resp, lkh) ==
    LET t == TipQueryTry(resp, lkh) IN
    IF t.outcome = "throw"
    THEN [outcome |-> "return", value |-> t.cached, cached |-> t.cached]
    ELSE t

\* fetchLatestBlockHeight(): the value returned, which is also the new
\* latestKnownHeight (set on success, returned unchanged otherwise)
fetchLatestBlockHeight(resp, lkh) == TipQuery(resp, lkh).value

\* sleep(RETRY_BASE_MS * Math.pow(2, attempt)) with a constant delay
BackoffMs_constant(att) == RETRY_BASE_MS

\* sleep(RETRY_BASE_MS * Math.pow(2, attempt))
BackoffMs(att) == RETRY_BASE_MS * (2 ^ att)

\* no retry on a null result (missing blocks are just skipped)
RetryStep_noretry(att, outcome) ==
    CASE outcome = "data"  -> "data"
      [] outcome = "null"  -> "null"
      [] outcome = "throw" -> IF att = MAX_RETRIES - 1 THEN "throw" ELSE "backoff"

\* a fetch error of the last attempt dropped: the loop falls through to return null
RetryStep_swallow(att, outcome) ==
    CASE outcome = "data"  -> "data"
      [] outcome = "null"  -> IF att < MAX_RETRIES - 1 THEN "backoff" ELSE "null"
      [] outcome = "throw" -> IF att = MAX_RETRIES - 1 THEN "null" ELSE "backoff"

\* a null result of the last attempt thrown to the caller instead of returned
RetryStep_nullthrows(att, outcome) ==
    CASE outcome = "data"  -> "data"
      [] outcome = "null"  -> IF att < MAX_RETRIES - 1 THEN "backoff" ELSE "throw"
      [] outcome = "throw" -> IF att = MAX_RETRIES - 1 THEN "throw" ELSE "backoff"

\* the body of fetchBlockWithRetry's for loop at attempt att, by the outcome
\* of fetchBlock: return the data, sleep and go on, return null (the loop is
\* over after the last attempt), or rethrow
RetryStep(att, outcome) ==
    CASE outcome = "data"  -> "data"
      [] outcome = "null"  -> IF att < MAX_RETRIES - 1 THEN "backoff" ELSE "null"
      [] outcome = "throw" -> IF att = MAX_RETRIES - 1 THEN "throw" ELSE "backoff"

\* START_BLOCK before the checkpoint
getStartBlockHeight_envfirst(row, env, latest) ==
    IF env > 0 THEN env
    ELSE IF getLastBlockHeight(row) > 0 THEN getLastBlockHeight(row) + 1
    ELSE latest

\* getStartBlockHeight(): latest is the result of fetchLatestBlockHeight(),
\* awaited only when NeedsLatest
getStartBlockHeight(row, env, latest) ==
    IF getLastBlockHeight(row) > 0 THEN getLastBlockHeight(row) + 1
    ELSE IF env > 0 THEN env
    ELSE latest
NeedsLatest(row, env) == ~(getLastBlockHeight(row) > 0) /\ ~(env > 0)

\* currentHeight >= latestKnownHeight
isAtTip_atleast(cur, lkh) == cur >= lkh

\* const isAtTip = currentHeight > latestKnownHeight
isAtTip(cur, lkh) == cur > lkh

\* behindBy >= CATCHUP_THRESHOLD
PaceMs_atleast(lkh, cur) ==
    IF lkh - cur >= CATCHUP_THRESHOLD THEN CATCHUP_INTERVAL_MS ELSE POLL_INTERVAL_MS

\* behindBy > CATCHUP_THRESHOLD ? CATCHUP_INTERVAL_MS : POLL_INTERVAL_MS,
\* cur being currentHeight after its increment
PaceMs(lkh, cur) ==
    IF lkh - cur > CATCHUP_THRESHOLD THEN CATCHUP_INTERVAL_MS ELSE POLL_INTERVAL_MS

\* the state of a fresh process: the module's initial values
FreshProcess ==
    /\ pc = "init" /\ running = FALSE /\ latestKnownHeight = 0
    /\ currentHeight = 0 /\ blocksProcessed = 0 /\ attempt = 0 /\ height = 0
    /\ blockData = NoData /\ eventsFound = 0 /\ sleepMs = 0
    /\ fetchLog = <<>> /\ iterOutcome = "none" /\ iterHeight = 0

Init ==
    /\ FreshProcess
    /\ last_block_height = NoRow /\ messages = {} /\ profiles = {}
    /\ envStart \in StartBlocks
    /\ chainTip \in TipValues
    /\ lostAt = {} /\ crashAt = {} /\ calls = <<>>
    /\ loops = <<>>

\* the listen callback calls startIndexing(): up to its first pending fetch
StartIndexing ==
    /\ pc = "init"
    /\ ~running
    /\ running' = TRUE
    /\ IF NeedsLatest(last_block_height, envStart)
       THEN /\ pc' = "start_latest"
            /\ UNCHANGED currentHeight
       ELSE /\ pc' = "start_tip"
            /\ currentHeight' = getStartBlockHeight(last_block_height, envStart, 0)
    /\ UNCHANGED <<latestKnownHeight, blocksProcessed, attempt, height, blockData,
                   eventsFound, sleepMs, loops, dbVars, envVars, histVars>>

\* getStartBlockHeight's fetchLatestBlockHeight() returns
StartLatestReturns ==
    /\ pc = "start_latest"
    /\ \E resp \in TipResponses :
         LET latest == fetchLatestBlockHeight(resp, latestKnownHeight) IN
           /\ latestKnownHeight' = latest
           /\ currentHeight' = getStartBlockHeight(last_block_height, envStart, latest)
    /\ pc' = "start_tip"
    /\ UNCHANGED <<running, blocksProcessed, attempt, height, blockData,
                   eventsFound, sleepMs, loops, dbVars, envVars, histVars>>

\* latestKnownHeight = await fetchLatestBlockHeight(), then the counters
StartTipReturns ==
    /\ pc = "start_tip"
    /\ \E resp \in TipResponses :
         latestKnownHeight' = fetchLatestBlockHeight(resp, latestKnownHeight)
    /\ blocksProcessed' = 0
    /\ pc' = "loop_top"
    /\ UNCHANGED <<running, currentHeight, attempt, height, blockData,
                   eventsFound, sleepMs, loops, dbVars, envVars, histVars>>

\* from the tip test on: the idle sleep, or the call of fetchBlockWithRetry
\* and its first fetchBlock
TipTest(lkh) ==
    IF isAtTip(currentHeight, lkh)
    THEN /\ pc' = "idle_sleep"
         /\ sleepMs' = IDLE_INTERVAL_MS
         /\ UNCHANGED <<attempt, height, fetchLog>>
    ELSE /\ pc' = "fetch"
         /\ attempt' = 0
         /\ height' = currentHeight
         /\ fetchLog' = <<>>
         /\ UNCHANGED sleepMs

\* while (true): the flag is never sampled
LoopTop_noflag ==
    /\ pc = "loop_top"
    /\ IF blocksProcessed % REFRESH_EVERY = 0
       THEN /\ pc' = "refresh"
            /\ UNCHANGED <<attempt, height, sleepMs, fetchLog>>
       ELSE TipTest(latestKnownHeight)
    /\ UNCHANGED <<running, latestKnownHeight, currentHeight, blocksProcessed,
                   blockData, eventsFound, loops, dbVars, envVars,
                   iterOutcome, iterHeight, lostAt, crashAt, calls>>

\* while (running), the periodic refresh of the tip, the tip test
LoopTop ==
    /\ pc = "loop_top"
    /\ IF ~running
       THEN /\ pc' = "exited"
            /\ UNCHANGED <<attempt, height, sleepMs, fetchLog>>
       ELSE IF blocksProcessed % REFRESH_EVERY = 0
            THEN /\ pc' = "refresh"
                 /\ UNCHANGED <<attempt, height, sleepMs, fetchLog>>
            ELSE TipTest(latestKnownHeight)
    /\ UNCHANGED <<running, latestKnownHeight, currentHeight, blocksProcessed,
                   blockData, eventsFound, loops, dbVars, envVars,
                   iterOutcome, iterHeight, lostAt, crashAt, calls>>

\* the periodic fetchLatestBlockHeight() returns
RefreshReturns ==
    /\ pc = "refresh"
    /\ \E resp \in TipResponses :
         LET lkh == fetchLatestBlockHeight(resp, latestKnownHeight) IN
           /\ latestKnownHeight' = lkh
           /\ TipTest(lkh)
    /\ UNCHANGED <<running, currentHeight, blocksProcessed, blockData,
                   eventsFound, loops, dbVars, envVars,
                   iterOutcome, iterHeight, lostAt, crashAt, calls>>

\* sleep(IDLE_INTERVAL_MS) is over
IdleWakes ==
    /\ pc = "idle_sleep"
    /\ pc' = "idle_refresh"
    /\ sleepMs' = 0
    /\ UNCHANGED <<running, latestKnownHeight, currentHeight, blocksProcessed,
                   attempt, height, blockData, eventsFound, loops,
                   dbVars, envVars, histVars>>

\* the fetchLatestBlockHeight() after the idle sleep returns; continue
IdleRefreshReturns ==
    /\ pc = "idle_refresh"
    /\ \E resp \in TipResponses :
         latestKnownHeight' = fetchLatestBlockHeight(resp, latestKnownHeight)
    /\ pc' = "loop_top"
    /\ UNCHANGED <<running, currentHeight, blocksProcessed, attempt, height,
                   blockData, eventsFound, sleepMs, loops, dbVars, envVars,
                   histVars>>

\* setLastBlockHeight(height): INSERT OR REPLACE of the one row
setLastBlockHeight(h) == last_block_height' = h

\* fetchBlock(height) settles at attempt `attempt`
FetchReturns ==
    /\ pc = "fetch"
    /\ height \in Served
    /\ \E resp \in BlockResponses(height) :
         LET got  == fetchBlock(resp)
             step == RetryStep(attempt, got.outcome) IN
           /\ fetchLog' = Append(fetchLog, got.outcome)
           /\ CASE step = "data" ->
                     /\ blockData' = got.data
                     /\ pc' = "parse"
                     /\ UNCHANGED <<currentHeight, sleepMs, last_block_height,
                                    iterOutcome, iterHeight, crashAt>>
                [] step = "backoff" ->
                     /\ sleepMs' = BackoffMs(attempt)
                     /\ pc' = "backoff"
                     /\ UNCHANGED <<currentHeight, blockData, last_block_height,
                                    iterOutcome, iterHeight, crashAt>>
                [] step = "null" ->
                     \* blockData === null: skippedBlocks++, the checkpoint, continue
                     /\ setLastBlockHeight(currentHeight)
                     /\ currentHeight' = currentHeight + 1
                     /\ pc' = "loop_top"
                     /\ iterOutcome' = "skipped"
                     /\ iterHeight' = height
                     /\ crashAt' = {}
                     /\ UNCHANGED <<blockData, sleepMs>>
                [] step = "throw" ->
                     \* catch (err): console.error, sleep(5000)
                     /\ sleepMs' = ERROR_DELAY_MS
                     /\ pc' = "err_sleep"
                     /\ iterOutcome' = "failed"
                     /\ iterHeight' = height
                     /\ UNCHANGED <<currentHeight, blockData, last_block_height,
                                    crashAt>>
    /\ UNCHANGED <<running, latestKnownHeight, blocksProcessed, attempt, height,
                   eventsFound, loops, messages, profiles, envVars, lostAt, calls>>

\* the backoff sleep is over: attempt++ and the next fetchBlock
BackoffWakes ==
    /\ pc = "backoff"
    /\ attempt' = attempt + 1
    /\ pc' = "fetch"
    /\ sleepMs' = 0
    /\ UNCHANGED <<running, latestKnownHeight, currentHeight, blocksProcessed,
                   height, blockData, eventsFound, loops, dbVars, envVars,
                   histVars>>

\* const eventsFound = parseBlock(blockData), or the catch of the loop
ParseBlockStep ==
    /\ pc = "parse"
    /\ \E dbFail \in LoopDbFailSets :
         LET r == parseBlock(blockData, messages, profiles, dbFail) IN
           /\ messages' = r.messages
           /\ profiles' = r.profiles
           /\ lostAt' = IF dbFail \cap (1..r.saves) # {}
                        THEN {currentHeight}
                        ELSE lostAt \ {currentHeight}
           /\ IF r.threw
              THEN /\ sleepMs' = ERROR_DELAY_MS
                   /\ pc' = "err_sleep"
                   /\ iterOutcome' = "failed"
                   /\ iterHeight' = height
                   /\ UNCHANGED eventsFound
              ELSE /\ eventsFound' = r.eventsFound
                   /\ pc' = "checkpoint"
                   /\ UNCHANGED <<sleepMs, iterOutcome, iterHeight>>
           /\ blockData' = IF r.threw THEN NoData ELSE blockData
    /\ fetchLog' = <<>>
    /\ UNCHANGED <<running, latestKnownHeight, currentHeight, blocksProcessed,
                   attempt, height, loops, last_block_height, envVars,
                   crashAt, calls>>

\* setLastBlockHeight(currentHeight), blocksProcessed++, currentHeight++,
\* and the pacing sleep
AdvanceCheckpoint ==
    /\ pc = "checkpoint"
    /\ setLastBlockHeight(currentHeight)
    /\ blocksProcessed' = blocksProcessed + 1
    /\ currentHeight' = currentHeight + 1
    /\ sleepMs' = PaceMs(latestKnownHeight, currentHeight + 1)
    /\ pc' = "post_sleep"
    /\ iterOutcome' = "processed"
    /\ iterHeight' = height
    /\ eventsFound' = 0
    /\ blockData' = NoData
    /\ crashAt' = {}
    /\ UNCHANGED <<running, latestKnownHeight, attempt, height, loops,
                   messages, profiles, envVars, fetchLog, lostAt, calls>>

\* the pacing sleep or the sleep(5000) of the catch is over
SleepEnds ==
    /\ pc \in {"post_sleep", "err_sleep"}
    /\ pc' = "loop_top"
    /\ sleepMs' = 0
    /\ fetchLog' = <<>>
    /\ UNCHANGED <<running, latestKnownHeight, currentHeight, blocksProcessed,
                   attempt, height, blockData, eventsFound, loops,
                   dbVars, envVars, iterOutcome, iterHeight, lostAt, crashAt,
                   calls>>

\* SIGINT or SIGTERM: shutdown() calls stopIndexing(). A handler runs only
\* while the loop is suspended in a fetch or a sleep, or has returned.
StopIndexing ==
    /\ pc \notin {"init", "loop_top", "parse", "checkpoint"}
    /\ running
    /\ running' = FALSE
    /\ UNCHANGED <<pc, latestKnownHeight, currentHeight, blocksProcessed,
                   attempt, height, blockData, eventsFound, sleepMs, loops,
                   dbVars, envVars, histVars>>

\* the process ends at any point (a crash, a kill, process.exit(0) of the
\* shutdown) and is started again on the same database; crashAt remembers the
\* block whose events were saved when the process ended before the
\* checkpoint write, until a checkpoint is written
CrashRestart ==
    /\ pc # "init"
    /\ pc' = "init" /\ running' = FALSE /\ latestKnownHeight' = 0
    /\ currentHeight' = 0 /\ blocksProcessed' = 0 /\ attempt' = 0 /\ height' = 0
    /\ blockData' = NoData /\ eventsFound' = 0 /\ sleepMs' = 0
    /\ fetchLog' = <<>> /\ iterOutcome' = "none" /\ iterHeight' = 0
    /\ envStart' \in StartBlocks
    /\ crashAt' = IF pc = "checkpoint" /\ currentHeight \notin lostAt
                  THEN {[height |-> currentHeight, block |-> blockData,
                         env |-> envStart]}
                  ELSE crashAt
    /\ UNCHANGED <<loops, dbVars, chainTip, lostAt, calls>>

\* the chain finalizes more blocks
ChainGrows ==
    /\ \E t \in TipValues : t > chainTip /\ chainTip' = t
    /\ UNCHANGED <<procVars, dbVars, envStart, histVars>>

Next ==
    \/ StartIndexing \/ StartLatestReturns \/ StartTipReturns
    \/ LoopTop \/ RefreshReturns \/ IdleWakes \/ IdleRefreshReturns
    \/ FetchReturns \/ BackoffWakes \/ ParseBlockStep \/ AdvanceCheckpoint
    \/ SleepEnds \/ StopIndexing \/ CrashRestart \/ ChainGrows

Spec == Init /\ [][Next]_vars

\* the steps of the loop: each is the continuation of an await that settled or
\* of a synchronous stretch, which the event loop runs once it is ready
LoopNext ==
    \/ StartLatestReturns \/ StartTipReturns
    \/ LoopTop \/ RefreshReturns \/ IdleWakes \/ IdleRefreshReturns
    \/ FetchReturns \/ BackoffWakes \/ ParseBlockStep \/ AdvanceCheckpoint
    \/ SleepEnds

\* one run of the process, from its start to the end of its loop, with every
\* pending sleep and every pending fetch of a served height returning
NextOneRun == StartIndexing \/ LoopNext \/ StopIndexing \/ ChainGrows

SpecOneRun == Init /\ [][NextOneRun]_vars /\ WF_vars(LoopNext)

(***************************************************************************)
(* Properties of the indexing loop.                                        *)
(***************************************************************************)
\* the step in which fetchBlock settles with outcome o
FetchSettles(o) ==
    /\ pc = "fetch"
    /\ Len(fetchLog') = Len(fetchLog) + 1
    /\ fetchLog'[Len(fetchLog')] = o
\* a step of the loop itself: not the environment's, not the process ending
LoopStep == pc' # pc /\ pc' # "init"
\* the step in which fetchBlockWithRetry is called
FetchCalled == pc \in {"loop_top", "refresh"} /\ pc' = "fetch"

\* C1: no step of the process (a block processed, a block skipped as missing,
\* a failed iteration, an idle iteration, a crash and restart) decreases the
\* persisted last_block_height; no row counts as below every height.
C1_CheckpointNeverDecreases ==
    [][last_block_height' >= last_block_height]_vars

\* a restarted process that resumed from checkpoint 1 has written checkpoint 2
C1_Witness ==
    /\ pc = "post_sleep" /\ blocksProcessed = 1 /\ envStart = 0
    /\ last_block_height = 2 /\ currentHeight = 3
    /\ messages # {}

\* C2: whenever the sync_state row exists when startIndexing resolves its
\* start height, that height is the row's value plus one, and the first
\* fetchBlockWithRetry of the process is for that height.
C2_ResumeAtCheckpointPlusOne ==
    last_block_height # NoRow =>
      /\ pc = "start_tip" => currentHeight = last_block_height + 1
      /\ (pc = "fetch" /\ iterOutcome = "none") => height = last_block_height + 1

\* C3: when the last attempt of fetchBlockWithRetry throws, or parseBlock
\* throws on a block without a header, the step leaves last_block_height and
\* currentHeight unchanged and starts the sleep of ERROR_DELAY_MS; the
\* iteration after a failed one, if the loop is still running, does not idle
\* and calls fetchBlockWithRetry with the height that failed.
C3_FailedIterationRetriesSameHeight ==
    [][ /\ (FetchSettles("throw") /\ attempt = MAX_RETRIES - 1)
           \/ (pc = "parse" /\ LoopStep /\ ~blockData.block)
           => /\ last_block_height' = last_block_height
              /\ currentHeight' = currentHeight
              /\ pc' = "err_sleep"
              /\ sleepMs' = ERROR_DELAY_MS
        /\ (pc = "err_sleep" /\ LoopStep) => pc' = "loop_top"
        /\ (iterOutcome = "failed" /\ LoopStep
              /\ ((pc = "loop_top" /\ running) \/ pc = "refresh"))
           => /\ pc' \in {"refresh", "fetch"}
              /\ pc' = "fetch" => height' = iterHeight /\ attempt' = 0
      ]_vars

\* height 1 failed (three thrown fetches or a block without a header) and is
\* being fetched again, the checkpoint still below it
C3_Witness ==
    /\ pc = "fetch" /\ attempt = 0 /\ iterOutcome = "failed"
    /\ iterHeight = 1 /\ height = 1 /\ currentHeight = 1
    /\ last_block_height < 1

\* C4: the checkpoint stays below every block in whose processing a save
\* call threw, so that the block is fetched and parsed again.
C4_SaveFailureHoldsCheckpoint ==
    \A h \in lostAt : last_block_height < h

Reprocessing ==
    \E c \in crashAt : c.height = currentHeight /\ c.block = blockData

C15_FreshStartAtTip ==
    (/\ last_block_height = NoRow /\ envStart = 0 /\ iterOutcome = "none"
     /\ pc \in {"start_tip", "loop_top", "refresh", "idle_sleep", "idle_refresh",
                 "fetch", "backoff", "parse", "checkpoint"})
    => currentHeight \in TipValues /\ currentHeight <= chainTip

\* the step in which the loop tests isAtTip: from the while test when the
\* iteration makes no periodic refresh, from the refresh otherwise
TipTested ==
    /\ LoopStep
    /\ \/ pc = "loop_top" /\ running /\ pc' # "refresh"
       \/ pc = "refresh"

\* C18 as stated: an iteration that finds currentHeight above the cached tip
\* at its top (the cached tip as the iteration began) fetches no block.
C18_IdleWheneverBeyondTipAtTop ==
    [][ (/\ LoopStep
         /\ currentHeight > latestKnownHeight
         /\ (pc = "loop_top" /\ running) \/ pc = "refresh")
        => pc' \in {"refresh", "idle_sleep"}
      ]_vars

\* C18 amended: the tip test uses the cached tip after the iteration's
\* periodic refresh, if it makes one.  When currentHeight is above that tip
\* the iteration sleeps IDLE_INTERVAL_MS, refreshes the cached tip and goes
\* back to the while test, with currentHeight, the checkpoint, the tables and
\* blocksProcessed unchanged and without a fetch; the loop idles in no other
\* case; and every checkpoint write stores the height that was fetched, which
\* is at most the cached tip of that test.
C18_IdleIterationFrame ==
    [][ /\ (TipTested /\ currentHeight > latestKnownHeight')
           => /\ pc' = "idle_sleep" /\ sleepMs' = IDLE_INTERVAL_MS
              /\ UNCHANGED <<currentHeight, blocksProcessed, dbVars>>
        /\ (TipTested /\ ~(currentHeight > latestKnownHeight'))
           => pc' = "fetch" /\ height' = currentHeight
        /\ (pc = "idle_sleep" /\ LoopStep)
           => /\ pc' = "idle_refresh"
              /\ UNCHANGED <<currentHeight, blocksProcessed, latestKnownHeight,
                             dbVars>>
        /\ (pc = "idle_refresh" /\ LoopStep)
           => /\ pc' = "loop_top"
              /\ UNCHANGED <<currentHeight, blocksProcessed, dbVars>>
        /\ (pc' = "idle_sleep" /\ pc # "idle_sleep") => TipTested
        /\ (pc \in {"fetch", "backoff", "parse", "checkpoint"} /\ LoopStep)
           => latestKnownHeight' = latestKnownHeight
        /\ last_block_height' # last_block_height
           => /\ last_block_height' = height
              /\ last_block_height' <= latestKnownHeight
      ]_vars

\* checkpoint 2 written, currentHeight 3 above the cached tip 2: the idle
\* sleep is over and the tip is being refreshed
C18_Witness ==
    /\ pc = "idle_refresh" /\ currentHeight = 3 /\ latestKnownHeight = 2
    /\ last_block_height = 2 /\ blocksProcessed > 0

\* C19: every checkpoint write stores the height that was just fetched; a
\* write that follows an earlier write of the same run stores one more than
\* it; and while a checkpoint row exists no height above it is fetched other
\* than the checkpoint plus one.
C19_InOrderNoGaps ==
    /\ [][ last_block_height' # last_block_height
           => /\ last_block_height' = height
              /\ (blocksProcessed > 0 \/ iterOutcome \in {"processed", "skipped"})
                 => last_block_height' = last_block_height + 1
         ]_vars
    /\ []((pc \in {"fetch", "backoff"} /\ last_block_height # NoRow
             /\ height > last_block_height)
          => height = last_block_height + 1)

\* the no-data results the upstream gave in a row, up to now, for the height
\* being fetched (fetchLog is emptied only after a result that is not null or
\* when the loop leaves the height)
RECURSIVE NullRun(_)
NullRun(log) ==
    IF log = <<>> \/ log[Len(log)] # "null" THEN 0
    ELSE 1 + NullRun(SubSeq(log, 1, Len(log) - 1))

\* stopIndexing() is never called
NeverStopped == [](pc # "init" => running)
\* the loop is in an iteration for a served height at or below the cached tip
Working ==
    /\ pc \notin {"init", "start_latest", "start_tip", "exited"}
    /\ currentHeight \in Served
    /\ currentHeight <= latestKnownHeight
\* the upstream has answered for the height being fetched with a block that
\* parseBlock accepts, or with MAX_RETRIES no-data results in a row
Answered ==
    \/ pc = "parse" /\ blockData.block
    \/ NullRun(fetchLog) >= MAX_RETRIES
\* as long as the loop works on heights up to the cached tip the upstream
\* answers again and again
UpstreamAnswers == []<>(~Working \/ Answered)

\* C22: when stopIndexing is never called, every sleep and every fetch of a
\* served height returns (the fairness of SpecOneRun), and the upstream goes
\* on answering with a parsable block or with MAX_RETRIES no-data results in
\* a row, every served height h that the loop's position has not passed and
\* that is at or below the cached tip is eventually the checkpoint, with the
\* loop beyond it: the loop stays on no such height forever.
C22_Progress ==
    (NeverStopped /\ UpstreamAnswers)
    =>
    \A h \in Served :
        [](( /\ pc \notin {"init", "start_latest", "start_tip", "exited"}
             /\ currentHeight <= h /\ h <= latestKnownHeight )
           => <>(last_block_height = h /\ currentHeight > h))

\* a run that was never stopped has worked its way to the cached tip, stored
\* the events of the block there, written it to the checkpoint, and idles above
C22_Witness ==
    /\ running /\ pc = "idle_sleep"
    /\ blocksProcessed >= 1
    /\ latestKnownHeight >= 2
    /\ currentHeight = latestKnownHeight + 1
    /\ last_block_height = latestKnownHeight
    /\ \E m \in messages : m.block_height = latestKnownHeight

\* the step is the call of stopIndexing()
StopCalled == running /\ ~running' /\ pc' # "init"
\* the loop is inside an iteration or its startup, not at the while test
InFlight == pc \notin {"init", "loop_top", "exited"}

\* C13: stopIndexing() changes nothing but running; with running cleared an
\* iteration in flight goes on as it would (the backoff is followed by the next
\* attempt, the fetched block is parsed, the checkpoint is written, the sleep
\* is slept), the loop returns only from its while test, and the while test
\* with running cleared returns without another iteration; once running is
\* cleared the loop returns, unless it waits for a fetch of a height the
\* upstream never answers.
C13_StopIsCooperative ==
    /\ [][ /\ StopCalled
              => UNCHANGED <<pc, latestKnownHeight, currentHeight, blocksProcessed,
                             attempt, height, blockData, eventsFound, sleepMs,
                             dbVars>>
           /\ (~running /\ InFlight /\ LoopStep) => pc' # "exited"
           /\ (~running /\ pc = "backoff" /\ LoopStep)
              => pc' = "fetch" /\ attempt' = attempt + 1
           /\ (~running /\ FetchSettles("data")) => pc' = "parse"
           /\ (~running /\ pc = "parse" /\ LoopStep /\ blockData.block)
              => pc' = "checkpoint"
           /\ (~running /\ pc = "checkpoint" /\ LoopStep)
              => /\ last_block_height' = currentHeight
                 /\ pc' = "post_sleep"
           /\ (~running /\ pc \in {"post_sleep", "err_sleep", "idle_refresh"}
                 /\ LoopStep)
              => pc' = "loop_top"
           /\ (pc = "loop_top" /\ ~running /\ LoopStep)
              => /\ pc' = "exited"
                 /\ UNCHANGED <<latestKnownHeight, currentHeight, dbVars>>
           /\ (pc = "exited" /\ LoopStep) => FALSE
         ]_vars
    /\ (~running /\ InFlight)
         ~> (pc = "exited" \/ (pc = "fetch" /\ height \notin Served))

\* stopIndexing() was called while block 1 was being fetched or earlier in the
\* iteration (no handler runs between the fetch and the checkpoint write);
\* the block has been parsed, its two events saved, the checkpoint is next
C13_Witness ==
    /\ ~running /\ pc = "checkpoint" /\ currentHeight = 1 /\ eventsFound = 2
    /\ Cardinality(messages) = 1 /\ Cardinality(profiles) = 1

(***************************************************************************)
(* SpecApi: the lake module under arbitrary calls of startIndexing() and   *)
(* stopIndexing(), as its exports allow.  Every startIndexing() that gets  *)
(* past its guard is an invocation with its own locals, loops[i]; running, *)
(* latestKnownHeight and the checkpoint are shared.  A call is made, and   *)
(* an await resumed, only while no invocation is in a synchronous stretch. *)
(* fetchBlockWithRetry is one await here: its retries touch only locals.   *)
(* The upstream serves blocks without events.                              *)
(***************************************************************************)
MaxApiCalls == 3    \* calls of startIndexing / stopIndexing in SpecApi

Loop(p, cur, n) == [pc |-> p, currentHeight |-> cur, blocksProcessed |-> n]

\* the invocations whose while loop has not ended
Live == {i \in DOMAIN loops : loops[i].pc # "exited"}

\* every invocation is suspended in an await, or has returned
Suspended == \A i \in DOMAIN loops : loops[i].pc # "loop_top"

\* the variables of the single-loop specification, unused here
apiFrame == <<pc, currentHeight, blocksProcessed, attempt, height, blockData,
              eventsFound, sleepMs, envStart, fetchLog, iterOutcome,
              iterHeight, lostAt, crashAt>>

ApiInit ==
    /\ pc = "api" /\ running = FALSE /\ latestKnownHeight = 0
    /\ currentHeight = 0 /\ blocksProcessed = 0 /\ attempt = 0 /\ height = 0
    /\ blockData = NoData /\ eventsFound = 0 /\ sleepMs = 0
    /\ loops = <<>>
    /\ last_block_height = NoRow /\ messages = {} /\ profiles = {}
    /\ envStart \in StartBlocks
    /\ chainTip \in TipValues
    /\ fetchLog = <<>> /\ iterOutcome = "none" /\ iterHeight = 0
    /\ lostAt = {} /\ crashAt = {} /\ calls = <<>>

\* startIndexing() without its guard: every call starts a loop
ApiStartIndexing_noguard ==
    /\ Suspended
    /\ Len(calls) < MaxApiCalls
    /\ calls' = Append(calls, [op |-> "start", running |-> running])
    /\ running' = TRUE
    /\ loops' = Append(loops,
                       IF NeedsLatest(last_block_height, envStart)
                       THEN Loop("start_latest", 0, 0)
                       ELSE Loop("start_tip",
                                 getStartBlockHeight(last_block_height, envStart, 0),
                                 0))
    /\ UNCHANGED <<latestKnownHeight, dbVars, chainTip, apiFrame>>

\* a call of startIndexing(), up to its return or its first await
ApiStartIndexing ==
    /\ Suspended
    /\ Len(calls) < MaxApiCalls
    /\ calls' = Append(calls, [op |-> "start", running |-> running])
    /\ IF running
       THEN UNCHANGED <<running, loops>>
       ELSE /\ running' = TRUE
            /\ loops' = Append(loops,
                               IF NeedsLatest(last_block_height, envStart)
                               THEN Loop("start_latest", 0, 0)
                               ELSE Loop("start_tip",
                                         getStartBlockHeight(last_block_height,
                                                             envStart, 0),
                                         0))
    /\ UNCHANGED <<latestKnownHeight, dbVars, chainTip, apiFrame>>

\* a call of stopIndexing()
ApiStopIndexing ==
    /\ Suspended
    /\ Len(calls) < MaxApiCalls
    /\ calls' = Append(calls, [op |-> "stop", running |-> running])
    /\ running' = FALSE
    /\ UNCHANGED <<loops, latestKnownHeight, dbVars, chainTip, apiFrame>>

\* getStartBlockHeight's fetchLatestBlockHeight() returns: return latest
ApiStartLatestReturns ==
    /\ Suspended
    /\ \E i \in DOMAIN loops :
         /\ loops[i].pc = "start_latest"
         /\ \E resp \in TipResponses :
              LET latest == fetchLatestBlockHeight(resp, latestKnownHeight) IN
                /\ latestKnownHeight' = latest
                /\ loops' = [loops EXCEPT ![i] = Loop("start_tip", latest, 0)]
    /\ UNCHANGED <<running, dbVars, chainTip, calls, apiFrame>>

\* latestKnownHeight = await fetchLatestBlockHeight() of startIndexing
ApiStartTipReturns ==
    /\ Suspended
    /\ \E i \in DOMAIN loops :
         /\ loops[i].pc = "start_tip"
         /\ \E resp \in TipResponses :
              latestKnownHeight' = fetchLatestBlockHeight(resp, latestKnownHeight)
         /\ loops' = [loops EXCEPT ![i].pc = "loop_top"]
    /\ UNCHANGED <<running, dbVars, chainTip, calls, apiFrame>>

\* the tip test of invocation l against the cached tip lkh
ApiTipTest(l, lkh) ==
    IF isAtTip(l.currentHeight, lkh) THEN "idle_sleep" ELSE "fetch"

\* while (running), the periodic refresh, the tip test
ApiLoopTop ==
    /\ \E i \in DOMAIN loops :
         /\ loops[i].pc = "loop_top"
         /\ loops' = [loops EXCEPT ![i].pc =
                        IF ~running THEN "exited"
                        ELSE IF loops[i].blocksProcessed % REFRESH_EVERY = 0
                             THEN "refresh"
                             ELSE ApiTipTest(loops[i], latestKnownHeight)]
    /\ UNCHANGED <<running, latestKnownHeight, dbVars, chainTip, calls, apiFrame>>

\* the periodic fetchLatestBlockHeight() returns
ApiRefreshReturns ==
    /\ Suspended
    /\ \E i \in DOMAIN loops :
         /\ loops[i].pc = "refresh"
         /\ \E resp \in TipResponses :
              LET lkh == fetchLatestBlockHeight(resp, latestKnownHeight) IN
                /\ latestKnownHeight' = lkh
                /\ loops' = [loops EXCEPT ![i].pc = ApiTipTest(loops[i], lkh)]
    /\ UNCHANGED <<running, dbVars, chainTip, calls, apiFrame>>

\* sleep(IDLE_INTERVAL_MS) is over
ApiIdleWakes ==
    /\ Suspended
    /\ \E i \in DOMAIN loops :
         /\ loops[i].pc = "idle_sleep"
         /\ loops' = [loops EXCEPT ![i].pc = "idle_refresh"]
    /\ UNCHANGED <<running, latestKnownHeight, dbVars, chainTip, calls, apiFrame>>

\* the fetchLatestBlockHeight() after the idle sleep returns; continue
ApiIdleRefreshReturns ==
    /\ Suspended
    /\ \E i \in DOMAIN loops :
         /\ loops[i].pc = "idle_refresh"
         /\ \E resp \in TipResponses :
              latestKnownHeight' = fetchLatestBlockHeight(resp, latestKnownHeight)
         /\ loops' = [loops EXCEPT ![i].pc = "loop_top"]
    /\ UNCHANGED <<running, dbVars, chainTip, calls, apiFrame>>

\* the result of fetchBlockWithRetry when its fetchBlock calls settle with
\* outs[1], outs[2], ...: "data", "null" or "throw"
RECURSIVE RetryResult(_, _)
RetryResult(att, outs) ==
    LET step == RetryStep(att, outs[att + 1]) IN
    IF step = "backoff" THEN RetryResult(att + 1, outs) ELSE step

\* fetchBlockWithRetry(currentHeight) returns or throws, and the rest of the
\* iteration up to its sleep
ApiFetchReturns ==
    /\ Suspended
    /\ \E i \in DOMAIN loops :
         LET l == loops[i] IN
         /\ l.pc = "fetch"
         /\ l.currentHeight \in Served
         /\ \E outs \in [1..MAX_RETRIES -> {"data", "null", "throw"}] :
              LET res == RetryResult(0, outs)
                  r   == parseBlock(Block(l.currentHeight, "T1", <<>>),
                                    messages, profiles, {})
              IN CASE res = "data" ->
                        /\ messages' = r.messages
                        /\ profiles' = r.profiles
                        /\ setLastBlockHeight(l.currentHeight)
                        /\ loops' = [loops EXCEPT ![i] =
                                       Loop("post_sleep", l.currentHeight + 1,
                                            l.blocksProcessed + 1)]
                   [] res = "null" ->
                        /\ setLastBlockHeight(l.currentHeight)
                        /\ loops' = [loops EXCEPT ![i] =
                                       Loop("loop_top", l.currentHeight + 1,
                                            l.blocksProcessed)]
                        /\ UNCHANGED <<messages, profiles>>
                   [] res = "throw" ->
                        /\ loops' = [loops EXCEPT ![i].pc = "err_sleep"]
                        /\ UNCHANGED dbVars
    /\ UNCHANGED <<running, latestKnownHeight, chainTip, calls, apiFrame>>

\* the pacing sleep or the sleep(5000) of the catch is over
ApiSleepEnds ==
    /\ Suspended
    /\ \E i \in DOMAIN loops :
         /\ loops[i].pc \in {"post_sleep", "err_sleep"}
         /\ loops' = [loops EXCEPT ![i].pc = "loop_top"]
    /\ UNCHANGED <<running, latestKnownHeight, dbVars, chainTip, calls, apiFrame>>

ApiNext ==
    \/ ApiStartIndexing \/ ApiStopIndexing
    \/ ApiStartLatestReturns \/ ApiStartTipReturns
    \/ ApiLoopTop \/ ApiRefreshReturns \/ ApiIdleWakes \/ ApiIdleRefreshReturns
    \/ ApiFetchReturns \/ ApiSleepEnds
    \/ ChainGrows

SpecApi == ApiInit /\ [][ApiNext]_vars

(***************************************************************************)
(* Properties of startIndexing and stopIndexing.                           *)
(***************************************************************************)
\* the step is a call of op
Called(op) ==
    /\ Len(calls') = Len(calls) + 1
    /\ calls'[Len(calls')].op = op

\* C11: a call of startIndexing() made while running is set, the first call
\* still awaiting its start height included, starts no invocation and leaves
\* running, latestKnownHeight, the checkpoint and every invocation's locals
\* (its currentHeight among them) as they were.
C11_StartWhileRunningIsNoOp ==
    [][ (Called("start") /\ running)
        => UNCHANGED <<running, latestKnownHeight, last_block_height, loops>>
      ]_vars

\* a second startIndexing() arrived while the first was still awaiting the
\* tip for its start height: there is one invocation, still awaiting
C11_Witness ==
    /\ Len(calls) = 2
    /\ calls[1] = [op |-> "start", running |-> FALSE]
    /\ calls[2] = [op |-> "start", running |-> TRUE]
    /\ Len(loops) = 1 /\ loops[1].pc = "start_latest"

\* C12: at most one invocation of startIndexing is inside its loop or on its
\* way into it, whatever the order of the calls and the awaits.
C12_AtMostOneLoop ==
    Cardinality(Live) <= 1

(***************************************************************************)
(* SpecFetch: fetchLatestBlockHeight() and fetchBlock(height) called in    *)
(* any order, each call with any answer of the upstream; calls records     *)
(* each call with the cached tip before and after it.                      *)
(***************************************************************************)
FetchInit ==
    /\ pc = "fetcher" /\ running = FALSE /\ latestKnownHeight = 0
    /\ currentHeight = 0 /\ blocksProcessed = 0 /\ attempt = 0 /\ height = 0
    /\ blockData = NoData /\ eventsFound = 0 /\ sleepMs = 0
    /\ loops = <<>>
    /\ last_block_height = NoRow /\ messages = {} /\ profiles = {}
    /\ envStart = 0
    /\ chainTip \in TipValues
    /\ fetchLog = <<>> /\ iterOutcome = "none" /\ iterHeight = 0
    /\ lostAt = {} /\ crashAt = {} /\ calls = <<>>

\* a call of fetchLatestBlockHeight() and its answer
TipQueryCall ==
    /\ Len(calls) < MaxCalls
    /\ \E resp \in TipResponses :
         LET t == TipQuery(resp, latestKnownHeight) IN
           /\ latestKnownHeight' = t.cached
           /\ calls' = Append(calls,
                              [fn |-> "tip", kind |-> resp.kind, arg |-> resp.height,
                               before |-> latestKnownHeight, after |-> t.cached,
                               outcome |-> t.outcome, value |-> t.value,
                               sent |-> NoData, data |-> NoData])
    /\ UNCHANGED <<pc, running, currentHeight, blocksProcessed, attempt, height,
                   blockData, eventsFound, sleepMs, loops, dbVars, envVars,
                   fetchLog, iterOutcome, iterHeight, lostAt, crashAt>>

\* a call of fetchBlock(h) and its answer
FetchBlockCall ==
    /\ Len(calls) < MaxCalls
    /\ \E h \in Served : \E resp \in BlockResponses(h) :
         LET g == fetchBlock(resp) IN
           calls' = Append(calls,
                           [fn |-> "block", kind |-> resp.kind, arg |-> h,
                            before |-> latestKnownHeight,
                            after |-> latestKnownHeight,
                            outcome |-> g.outcome, value |-> 0,
                            sent |-> resp.data, data |-> g.data])
    /\ UNCHANGED <<procVars, dbVars, envVars,
                   fetchLog, iterOutcome, iterHeight, lostAt, crashAt>>

FetchNext == TipQueryCall \/ FetchBlockCall \/ ChainGrows

SpecFetch == FetchInit /\ [][FetchNext]_vars

\* C16: no call of fetchLatestBlockHeight throws; a call whose answer is not
\* a final block with a height (no answer, a status outside 2xx, an unreadable
\* body, a body with an error field, without block or without header) returns
\* the cached tip as it was before the call and leaves it unchanged; a call
\* answered with a final block returns that block's height and caches it; and
\* the cached tip changes in no other way.
C16_TipQueryNeverThrows ==
    /\ \A i \in 1..Len(calls) :
         calls[i].fn = "tip" =>
           /\ calls[i].outcome = "return"
           /\ calls[i].kind # "ok"
              => calls[i].value = calls[i].before /\ calls[i].after = calls[i].before
           /\ calls[i].kind = "ok"
              => calls[i].value = calls[i].arg /\ calls[i].after = calls[i].arg
    /\ \A i \in 1..Len(calls) :
         /\ calls[i].fn = "block" => calls[i].after = calls[i].before
         /\ calls[i].before = IF i = 1 THEN 0 ELSE calls[i - 1].after
    /\ latestKnownHeight = IF calls = <<>> THEN 0 ELSE calls[Len(calls)].after

\* a successful query cached the tip, and a later answer whose block has no
\* header (a TypeError inside the try) returned the cached tip
C16_Witness ==
    /\ Len(calls) = 2
    /\ calls[1].fn = "tip" /\ calls[1].kind = "ok" /\ calls[1].value = 2
    /\ calls[2].fn = "tip" /\ calls[2].kind = "noheader"
    /\ calls[2].outcome = "return" /\ calls[2].value = 2
    /\ latestKnownHeight = 2

====
